---- MODULE Spec2Model ----
(***************************************************************************)
(* Model of feature_alignment/model/tdpo.py: tdpo_get_batch_logps, the     *)
(* TDPO1Model / TDPO2Model losses and TDPO1Model.get_batch_metrics.        *)
(*                                                                         *)
(* Numbers.  A float is a record [k, v, e]: k = "fin" with v a fixed-point  *)
(* integer (v / ONE is the value), or k in {"nan", "pinf", "ninf"}.  A     *)
(* finite value below the fixed-point resolution is not 0: it has v = 0    *)
(* and e = n (about 2^-n) or e = -n (about -2^-n); e = 0 otherwise.  All   *)
(* log-domain quantities are measured in units of ln 2, so exp is 2^x and  *)
(* log is log2; this is an exact change of unit of the inputs.  exp keeps  *)
(* the float32 exponent range: 2^d is exactly 0 below the smallest         *)
(* subnormal (d < -FloatMinExp).                                           *)
(*                                                                         *)
(* Tensors.  A tensor is a record [shape, data]; data is a nested sequence *)
(* (1-based), token ids are 0-based as in the source.  A tensor that takes *)
(* part in autograd also has g, the set of leaves its value is connected   *)
(* to in the gradient graph; detach() empties g.                           *)
(***************************************************************************)
EXTENDS Integers, Sequences, FiniteSets, TLC

VARIABLES
    labels,             \* tdpo_get_batch_logps argument
    logits,             \* tdpo_get_batch_logps argument
    reference_logits,   \* tdpo_get_batch_logps argument
    average_log_prob,   \* tdpo_get_batch_logps argument
    aligned,            \* outcome of the last tdpo_get_batch_logps call
    prevAligned,        \* outcome of the call before the caller changed an input
    lossArgs,           \* the four arguments of loss()
    config,             \* self.config.loss: alpha, beta
    out1,               \* outcome of TDPO1Model.loss on lossArgs
    out2,               \* outcome of TDPO2Model.loss on lossArgs
    prevLoss,           \* lossArgs/out1/out2 before the caller changed an argument
    fwd,                \* what forward() gets from tdpo_get_batch_logps
    batchOut            \* outcome of get_batch_metrics

vars == <<labels, logits, reference_logits, average_log_prob, aligned, prevAligned,
          lossArgs, config, out1, out2, prevLoss, fwd, batchOut>>

alignVars == <<labels, logits, reference_logits, average_log_prob, aligned, prevAligned>>
lossVars == <<lossArgs, config, out1, out2, prevLoss>>
batchVars == <<fwd, batchOut>>

----------------------------------------------------------------------------
(* Bounds and constants *)

SeqLen == 3          \* sequence_length of the value batches
NumSeqs == 2         \* batch_size of the value batches
MaxShapeLen == 3     \* largest sequence_length among the shape-only batches
FracBits == 6        \* fractional bits of the fixed-point values
FloatMinExp == 149   \* float32: 2^-149 is the smallest positive value
SENTINEL == -100     \* label value that is ignored
PLACEHOLDER == 0     \* dummy token written over the ignored labels

RECURSIVE Pow2(_)
Pow2(n) == IF n <= 0 THEN 1 ELSE 2 * Pow2(n - 1)

ONE == Pow2(FracBits)

None == [k |-> "none"]

----------------------------------------------------------------------------
(* Float arithmetic *)

Fin(n) == [k |-> "fin", v |-> n, e |-> 0]
Tiny(n) == [k |-> "fin", v |-> 0, e |-> n]
NaN == [k |-> "nan", v |-> 0, e |-> 0]
PInf == [k |-> "pinf", v |-> 0, e |-> 0]
NInf == [k |-> "ninf", v |-> 0, e |-> 0]

IsFin(x) == x.k = "fin"

Abs(n) == IF n < 0 THEN -n ELSE n

\* order of the values below the resolution: 2^-a against 2^-b, signed
TinyKey(a) ==
    IF a = 0 THEN 0
    ELSE IF a > 0 THEN FloatMinExp + 1 - a ELSE -(FloatMinExp + 1 + a)

\* the sum of two values below the resolution, to its leading term
TinyAdd(a, b) ==
    IF Abs(TinyKey(a)) > Abs(TinyKey(b)) THEN a
    ELSE IF Abs(TinyKey(a)) < Abs(TinyKey(b)) THEN b
    ELSE IF a = b THEN a ELSE 0

\* x < y and x > 0 for finite floats
Less(x, y) == x.v < y.v \/ (x.v = y.v /\ TinyKey(x.e) < TinyKey(y.e))
Sign(x) == IF Less(Fin(0), x) THEN 1 ELSE IF Less(x, Fin(0)) THEN -1 ELSE 0

FNeg(x) ==
    CASE x.k = "fin" -> [k |-> "fin", v |-> -x.v, e |-> -x.e]
      [] x.k = "pinf" -> NInf
      [] x.k = "ninf" -> PInf
      [] OTHER -> NaN

FAdd(x, y) ==
    CASE x.k = "nan" \/ y.k = "nan" -> NaN
      [] x.k = "fin" /\ y.k = "fin" ->
            IF x.v + y.v # 0 THEN Fin(x.v + y.v) ELSE Tiny(TinyAdd(x.e, y.e))
      [] x.k = "fin" -> y
      [] y.k = "fin" -> x
      [] x.k = y.k -> x
      [] OTHER -> NaN

FSub(x, y) == FAdd(x, FNeg(y))

\* float * bool: True is 1.0 and False is 0.0; 0.0 * inf and 0.0 * nan are nan
FMulMask(x, m) ==
    IF m THEN x
    ELSE IF x.k = "fin" THEN Fin(0) ELSE NaN

\* float / integer count: x / 0 is nan for x = 0 and an infinity otherwise
FDivCount(x, c) ==
    IF c = 0
    THEN CASE x.k = "fin" /\ Sign(x) = 0 -> NaN
           [] x.k = "fin" /\ Sign(x) > 0 -> PInf
           [] x.k = "fin" /\ Sign(x) < 0 -> NInf
           [] OTHER -> x
    ELSE IF x.k = "fin" THEN [x EXCEPT !.v = x.v \div c] ELSE x

RECURSIVE FSum(_)
FSum(s) == IF s = <<>> THEN Fin(0) ELSE FAdd(Head(s), FSum(Tail(s)))

RECURSIVE CountTrue(_)
CountTrue(s) ==
    IF s = <<>> THEN 0 ELSE (IF Head(s) THEN 1 ELSE 0) + CountTrue(Tail(s))

RECURSIVE SumInt(_)
SumInt(s) == IF s = <<>> THEN 0 ELSE Head(s) + SumInt(Tail(s))

RECURSIVE MaxOf(_)
MaxOf(s) ==
    IF Len(s) = 1 THEN s[1]
    ELSE LET m == MaxOf(Tail(s)) IN IF s[1] > m THEN s[1] ELSE m

\* log2 of a fixed-point x >= ONE, to FracBits fractional bits
RECURSIVE Log2Int(_)
Log2Int(x) == IF x < 2 * ONE THEN 0 ELSE 1 + Log2Int(x \div 2)

RECURSIVE Log2Frac(_, _)
Log2Frac(y, i) ==
    IF i > FracBits THEN 0
    ELSE LET sq == (y * y) \div ONE
         IN IF sq >= 2 * ONE
            THEN Pow2(FracBits - i) + Log2Frac(sq \div 2, i + 1)
            ELSE Log2Frac(sq, i + 1)

Log2Fix(x) ==
    LET n == Log2Int(x)
    IN n * ONE + Log2Frac(x \div Pow2(n), 1)

\* 2^d for an integer d <= 0: zero says the float result is exactly 0
\* (underflow), n is the value in fixed point (0 below the resolution)
Exp2(d) ==
    [zero |-> d < -FloatMinExp,
     n |-> IF d >= -FracBits THEN Pow2(FracBits + d) ELSE 0]

----------------------------------------------------------------------------
(* tdpo_get_batch_logps *)

\* variant with a plausible slip: t.shape[1:]
ShapeButFirst(shape) == Tail(shape)

\* t.shape[:-1]
ShapeButLast(shape) == SubSeq(shape, 1, Len(shape) - 1)

\* softmax(-1) of one vocabulary row: entry v is exp(x_v - max) / sum, kept as
\* the exponent d, the numerator and the sum; zero says the entry is exactly 0
Softmax(row) ==
    LET m == MaxOf(row)
        e == [v \in 1..Len(row) |-> Exp2(row[v] - m)]
        s == SumInt([v \in 1..Len(row) |-> e[v].n])
    IN [v \in 1..Len(row) |->
            [zero |-> e[v].zero, d |-> row[v] - m, n |-> e[v].n, s |-> s]]

\* p.log() of a softmax entry: log(0) is -inf
LogOfProb(p) == IF p.zero THEN NInf ELSE Fin(p.d * ONE - Log2Fix(p.s))

\* log_softmax(-1) of one vocabulary row: x_v - max - log(sum), always finite
LogSoftmax(row) ==
    LET m == MaxOf(row)
        s == SumInt([v \in 1..Len(row) |-> Exp2(row[v] - m).n])
    IN [v \in 1..Len(row) |-> Fin((row[v] - m) * ONE - Log2Fix(s))]

\* p * x for a softmax entry p and a float x: 0 * inf is nan
ProbMul(p, x) ==
    CASE x.k = "nan" -> NaN
      [] x.k = "fin" -> Fin((p.n * x.v) \div p.s)
      [] OTHER -> IF p.zero THEN NaN ELSE x

\* variant with a plausible slip: logits[:, 1:, :]
ShiftLogitsDropFirst(data) == [b \in 1..Len(data) |-> Tail(data[b])]

\* labels[:, 1:]
ShiftLabels(data) == [b \in 1..Len(data) |-> Tail(data[b])]

\* logits[:, :-1, :]
ShiftLogits(data) == [b \in 1..Len(data) |-> SubSeq(data[b], 1, Len(data[b]) - 1)]

\* labels != -100
LossMask(shifted) ==
    [b \in 1..Len(shifted) |-> [t \in 1..Len(shifted[b]) |-> shifted[b][t] # SENTINEL]]

\* labels[labels == -100] = 0
FillPlaceholder(shifted) ==
    [b \in 1..Len(shifted) |-> [t \in 1..Len(shifted[b]) |->
        IF shifted[b][t] = SENTINEL THEN PLACEHOLDER ELSE shifted[b][t]]]

\* (reference_vocab_ps * (reference_vocab_logps - vocab_logps)).sum(-1)
PerPositionKL(ps, rlogps, logps) ==
    [b \in 1..Len(ps) |-> [t \in 1..Len(ps[b]) |->
        FSum([v \in 1..Len(ps[b][t]) |->
                ProbMul(ps[b][t][v], FSub(rlogps[b][t][v], logps[b][t][v]))])]]

\* torch.gather(x, dim=2, index=idx.unsqueeze(2)).squeeze(2) * loss_mask
GatherMasked(x, idx, mask) ==
    [b \in 1..Len(x) |-> [t \in 1..Len(x[b]) |->
        FMulMask(x[b][t][idx[b][t] + 1], mask[b][t])]]

\* (x * loss_mask).sum(-1)
MaskedSum(x, mask) ==
    [b \in 1..Len(x) |->
        FSum([t \in 1..Len(x[b]) |-> FMulMask(x[b][t], mask[b][t])])]

\* (x * loss_mask).sum(-1) / loss_mask.sum(-1)
MaskedMean(x, mask) ==
    [b \in 1..Len(x) |-> FDivCount(MaskedSum(x, mask)[b], CountTrue(mask[b]))]

Aggregate(x, mask, avg) == IF avg THEN MaskedMean(x, mask) ELSE MaskedSum(x, mask)

\* the two asserts on the shapes
ShapesAgree(lg, ref, lab) ==
    /\ ShapeButLast(lg.shape) = lab.shape
    /\ ShapeButLast(ref.shape) = lab.shape

NotCalled == [state |-> "not called"]

\* The whole function: what it raises, or its locals and the returned triple
tdpo_get_batch_logps(lg, ref, lab, avg) ==
    IF ~ShapesAgree(lg, ref, lab)
    THEN [state |-> "raised", error |-> "AssertionError"]
    ELSE
    LET shifted == ShiftLabels(lab.data)
        slogits == ShiftLogits(lg.data)
        sref == ShiftLogits(ref.data)
        loss_mask == LossMask(shifted)
        idx == FillPlaceholder(shifted)
        vocab_logps ==
            [b \in 1..Len(slogits) |-> [t \in 1..Len(slogits[b]) |->
                LogSoftmax(slogits[b][t])]]
        reference_vocab_ps ==
            [b \in 1..Len(sref) |-> [t \in 1..Len(sref[b]) |-> Softmax(sref[b][t])]]
        reference_vocab_logps ==
            [b \in 1..Len(sref) |-> [t \in 1..Len(sref[b]) |->
                [v \in 1..Len(sref[b][t]) |-> LogOfProb(reference_vocab_ps[b][t][v])]]]
        per_position_kl == PerPositionKL(reference_vocab_ps, reference_vocab_logps, vocab_logps)
        per_token_logps == GatherMasked(vocab_logps, idx, loss_mask)
        per_reference_token_logps == GatherMasked(reference_vocab_logps, idx, loss_mask)
        logps_margin ==
            [b \in 1..Len(shifted) |-> [t \in 1..Len(shifted[b]) |->
                FSub(per_token_logps[b][t], per_reference_token_logps[b][t])]]
    IN [state |-> "returned",
        labels |-> idx,
        loss_mask |-> loss_mask,
        vocab_logps |-> vocab_logps,
        reference_vocab_logps |-> reference_vocab_logps,
        per_position_kl |-> per_position_kl,
        per_token_logps |-> per_token_logps,
        per_reference_token_logps |-> per_reference_token_logps,
        logps_margin |-> Aggregate(logps_margin, loss_mask, avg),
        position_kl |-> Aggregate(per_position_kl, loss_mask, avg),
        logps |-> Aggregate(per_token_logps, loss_mask, avg)]

\* A caller calls the function on the current arguments
Call ==
    /\ aligned = NotCalled
    /\ aligned' = tdpo_get_batch_logps(logits, reference_logits, labels, average_log_prob)
    /\ UNCHANGED <<labels, logits, reference_logits, average_log_prob, prevAligned>>
    /\ UNCHANGED lossVars
    /\ UNCHANGED batchVars

(* Arguments *)

LabelVals == {SENTINEL, 0, 1}
PolicyRows == {<<1, 0>>, <<-160, 0>>}
ReferenceRows == {<<0, 1>>, <<-160, 0>>}
VocabSize == Len(CHOOSE r \in PolicyRows : TRUE)

IdleLoss ==
    /\ lossArgs = None
    /\ config = None
    /\ out1 = None
    /\ out2 = None
    /\ prevLoss = None

IdleBatch ==
    /\ fwd = None
    /\ batchOut = None

IdleAlign ==
    /\ labels = None
    /\ logits = None
    /\ reference_logits = None
    /\ average_log_prob = FALSE
    /\ aligned = NotCalled
    /\ prevAligned = None

\* Batches of nb sequences of length SeqLen with agreeing shapes.  The first
\* label and the last logits of a sequence start at a fixed value.
InitValues(nb) ==
    /\ \E lab \in [1..nb -> [1..(SeqLen - 1) -> LabelVals]] :
          labels = [shape |-> <<nb, SeqLen>>,
                    data |-> [b \in 1..nb |-> <<SENTINEL>> \o lab[b]]]
    /\ \E lg \in [1..nb -> [1..(SeqLen - 1) -> PolicyRows]] :
          logits = [shape |-> <<nb, SeqLen, VocabSize>>,
                    data |-> [b \in 1..nb |-> lg[b] \o <<lg[b][1]>>]]
    /\ \E rf \in [1..nb -> [1..(SeqLen - 1) -> ReferenceRows]] :
          reference_logits = [shape |-> <<nb, SeqLen, VocabSize>>,
                              data |-> [b \in 1..nb |-> rf[b] \o <<rf[b][1]>>]]
    /\ average_log_prob \in BOOLEAN
    /\ aligned = NotCalled
    /\ prevAligned = None
    /\ IdleLoss
    /\ IdleBatch

Init == InitValues(NumSeqs)

Next == Call

Spec == Init /\ [][Next]_vars

(* Shape-only batches: every combination of shapes, constant contents *)

RECURSIVE Fill(_, _)
Fill(shape, x) ==
    IF shape = <<>> THEN x
    ELSE [i \in 1..Head(shape) |-> Fill(Tail(shape), x)]

Tensor(shape, x) == [shape |-> shape, data |-> Fill(shape, x)]

LabelShapes ==
    {<<b, l>> : b \in 1..NumSeqs, l \in 1..MaxShapeLen} \cup {<<l>> : l \in 1..MaxShapeLen}
LogitsShapes == {<<b, l, VocabSize>> : b \in 1..NumSeqs, l \in 1..MaxShapeLen}

InitShapes ==
    /\ \E sh \in LabelShapes : labels = Tensor(sh, 1)
    /\ \E sh \in LogitsShapes : logits = Tensor(sh, 1)
    /\ \E sh \in LogitsShapes : reference_logits = Tensor(sh, 0)
    /\ average_log_prob \in BOOLEAN
    /\ aligned = NotCalled
    /\ prevAligned = None
    /\ IdleLoss
    /\ IdleBatch

SpecShape == InitShapes /\ [][Next]_vars

(* A caller that calls again after changing one argument entry *)

Returned == aligned # NotCalled /\ aligned.state = "returned"

\* replace the logits of the last position of sequence b by row
SetLast(t, b, row) ==
    [t EXCEPT !.data[b][Len(t.data[b])] = row]

ChangeLastLogits ==
    /\ Returned
    /\ prevAligned = None
    /\ \E b \in 1..Len(logits.data) : \E row \in PolicyRows \cup ReferenceRows :
          /\ row # logits.data[b][Len(logits.data[b])]
          /\ logits' = SetLast(logits, b, row)
    /\ prevAligned' = aligned
    /\ aligned' = NotCalled
    /\ UNCHANGED <<labels, reference_logits, average_log_prob>>
    /\ UNCHANGED lossVars
    /\ UNCHANGED batchVars

ChangeLastReferenceLogits ==
    /\ Returned
    /\ prevAligned = None
    /\ \E b \in 1..Len(reference_logits.data) : \E row \in PolicyRows \cup ReferenceRows :
          /\ row # reference_logits.data[b][Len(reference_logits.data[b])]
          /\ reference_logits' = SetLast(reference_logits, b, row)
    /\ prevAligned' = aligned
    /\ aligned' = NotCalled
    /\ UNCHANGED <<labels, logits, average_log_prob>>
    /\ UNCHANGED lossVars
    /\ UNCHANGED batchVars

ChangeFirstLabel ==
    /\ Returned
    /\ prevAligned = None
    /\ \E b \in 1..Len(labels.data) : \E x \in LabelVals :
          /\ x # labels.data[b][1]
          /\ labels' = [labels EXCEPT !.data[b][1] = x]
    /\ prevAligned' = aligned
    /\ aligned' = NotCalled
    /\ UNCHANGED <<logits, reference_logits, average_log_prob>>
    /\ UNCHANGED lossVars
    /\ UNCHANGED batchVars

NextShift == Call \/ ChangeLastLogits \/ ChangeLastReferenceLogits \/ ChangeFirstLabel

SpecShift == InitValues(1) /\ [][NextShift]_vars

----------------------------------------------------------------------------
(* Properties of tdpo_get_batch_logps *)

Rows == 1..Len(labels.data)
ShiftedPositions(b) == 1..(Len(labels.data[b]) - 1)
\* position t of the shifted tensors is unmasked: labels[b, t+1] != -100 (0-based t)
Unmasked(b, t) == labels.data[b][t + 1] # SENTINEL
UnmaskedCount(b) == Cardinality({t \in ShiftedPositions(b) : Unmasked(b, t)})
AllMasked(b) == UnmaskedCount(b) = 0

RECURSIVE SumOver(_, _, _)
\* the float sum of f[t] over the positions t <= n that are in the set keep
SumOver(f, n, keep) ==
    IF n = 0 THEN Fin(0)
    ELSE IF n \in keep THEN FAdd(SumOver(f, n - 1, keep), f[n])
    ELSE SumOver(f, n - 1, keep)

\* C1: with average_log_prob=False, a batch whose label sequences are all
\* entirely -100 gets logps_margin = 0, position_kl = 0 and logps = 0 for
\* every sequence, whatever the policy and reference logits are.
C1_AllMaskedSumIsZero ==
    (Returned /\ ~average_log_prob /\ \A b \in Rows : AllMasked(b))
        => \A b \in Rows :
              /\ aligned.logps_margin[b] = Fin(0)
              /\ aligned.position_kl[b] = Fin(0)
              /\ aligned.logps[b] = Fin(0)

\* C2: the returned triple is the same after the caller changed only the
\* logits or reference logits of the last position, or only the first label,
\* and the logits of position t are scored against the label of position t+1.
C2_ShiftConsistency ==
    /\ Returned =>
          \A b \in Rows : \A t \in ShiftedPositions(b) :
              aligned.per_token_logps[b][t] =
                  IF labels.data[b][t + 1] = SENTINEL THEN Fin(0)
                  ELSE LogSoftmax(logits.data[b][t])[labels.data[b][t + 1] + 1]
    /\ (Returned /\ prevAligned # None) =>
          /\ aligned.logps_margin = prevAligned.logps_margin
          /\ aligned.position_kl = prevAligned.position_kl
          /\ aligned.logps = prevAligned.logps

\* the second call returned after a change, and some label was scored
C2_Witness ==
    /\ Returned
    /\ prevAligned # None
    /\ \E b \in Rows : aligned.logps[b] # Fin(0)

\* logits.shape[:-1] == labels.shape, written out per dimension
AgreesWithLabels(t) ==
    /\ Len(t.shape) = Len(labels.shape) + 1
    /\ \A i \in 1..Len(labels.shape) : t.shape[i] = labels.shape[i]

\* C3: when the shapes disagree the call raises the assertion error and has
\* produced nothing else; when they agree the call returns.
C3_ShapeError ==
    aligned # NotCalled =>
        IF AgreesWithLabels(logits) /\ AgreesWithLabels(reference_logits)
        THEN aligned.state = "returned"
        ELSE aligned = [state |-> "raised", error |-> "AssertionError"]

C3_Witness ==
    /\ aligned # NotCalled
    /\ aligned.state = "raised"
    /\ AgreesWithLabels(logits)
    /\ ~AgreesWithLabels(reference_logits)

\* C9: each output of a sequence is the aggregate, over exactly its unmasked
\* shifted positions, of the per-position quantity (KL, policy log-prob minus
\* reference log-prob of the label, policy log-prob of the label); masked
\* positions and the placeholder contribute nothing; under averaging the sum
\* is divided by the number of unmasked positions.
C9_AggregateOverUnmasked ==
    Returned =>
        \A b \in Rows :
            LET n == Len(labels.data[b]) - 1
                keep == {t \in 1..n : Unmasked(b, t)}
                lab(t) == labels.data[b][t + 1] + 1
                lp == [t \in 1..n |->
                        IF t \in keep THEN aligned.vocab_logps[b][t][lab(t)] ELSE NaN]
                rlp == [t \in 1..n |->
                        IF t \in keep THEN aligned.reference_vocab_logps[b][t][lab(t)] ELSE NaN]
                mg == [t \in 1..n |-> FSub(lp[t], rlp[t])]
                agg(f) == IF average_log_prob
                          THEN FDivCount(SumOver(f, n, keep), Cardinality(keep))
                          ELSE SumOver(f, n, keep)
            IN /\ aligned.logps_margin[b] = agg(mg)
               /\ aligned.position_kl[b] = agg(aligned.per_position_kl[b])
               /\ aligned.logps[b] = agg(lp)

\* C10: under average_log_prob=True a sequence without unmasked positions
\* gets nan for all three outputs, and the sequences of the batch that have
\* an unmasked position get defined (finite) averages.
C10_AllMaskedAverageIsNaN ==
    (Returned /\ average_log_prob) =>
        \A b \in Rows :
            IF AllMasked(b)
            THEN /\ aligned.logps_margin[b] = NaN
                 /\ aligned.position_kl[b] = NaN
                 /\ aligned.logps[b] = NaN
            ELSE /\ IsFin(aligned.logps_margin[b])
                 /\ IsFin(aligned.position_kl[b])
                 /\ IsFin(aligned.logps[b])

----------------------------------------------------------------------------
(* Tensors in the gradient graph: [data, g] with data a sequence of floats *)

TAdd(a, b) ==
    [data |-> [i \in 1..Len(a.data) |-> FAdd(a.data[i], b.data[i])], g |-> a.g \cup b.g]
TSub(a, b) ==
    [data |-> [i \in 1..Len(a.data) |-> FSub(a.data[i], b.data[i])], g |-> a.g \cup b.g]
TNeg(a) ==
    [data |-> [i \in 1..Len(a.data) |-> FNeg(a.data[i])], g |-> a.g]

\* c * a for a Python number c (here a positive integer)
FScale(c, x) ==
    IF x.k # "fin" THEN x
    ELSE IF c = 0 THEN Fin(0) ELSE [x EXCEPT !.v = c * x.v]
TScale(c, a) ==
    [data |-> [i \in 1..Len(a.data) |-> FScale(c, a.data[i])], g |-> a.g]

\* a.detach(): same values, cut from the gradient graph
Detach(a) == [a EXCEPT !.g = {}]

\* F.logsigmoid(x) = min(x, 0) - log1p(exp(-|x|)), x a whole number of units.
\* exp(-|x|) = 0 (underflow) gives min(x, 0) exactly; a log1p below the
\* resolution is absorbed by a non-zero min(x, 0) and is kept next to 0.
LogSigmoid(x) ==
    IF x.k # "fin" THEN x
    ELSE LET n == Abs(x.v) \div ONE
             lo == IF x.v < 0 THEN x.v ELSE 0
             ex == Exp2(-n)
             l == Log2Fix(ONE + ex.n)
         IN IF ex.zero \/ (l = 0 /\ lo # 0) THEN Fin(lo)
            ELSE IF l = 0 THEN Tiny(-n)
            ELSE Fin(lo - l)

TLogSigmoid(a) ==
    [data |-> [i \in 1..Len(a.data) |-> LogSigmoid(a.data[i])], g |-> a.g]

(* TDPO1Model.loss *)

\* variants of the logit with a plausible slip, used to test the properties
TDPO1LogitsMarginOnly(a) ==
    TSub(a.chosen_logps_margin, a.rejected_logps_margin)

TDPO1LogitsSwapped(a) ==
    TSub(TSub(a.rejected_logps_margin, a.chosen_logps_margin),
         TSub(a.rejected_position_kl, a.chosen_position_kl))

TDPO1Logits(a) ==
    LET chosen_rejected_logps_margin ==
            TSub(a.chosen_logps_margin, a.rejected_logps_margin)
    IN TSub(chosen_rejected_logps_margin,
            TSub(a.rejected_position_kl, a.chosen_position_kl))

TDPO1Loss(a, cfg) ==
    LET chosen_values == TAdd(a.chosen_logps_margin, a.chosen_position_kl)
        rejected_values == TAdd(a.rejected_logps_margin, a.rejected_position_kl)
        lg == TDPO1Logits(a)
    IN [logits |-> lg,
        losses |-> TNeg(TLogSigmoid(TScale(cfg.beta, lg))),
        chosen_rewards |-> TScale(cfg.beta, Detach(chosen_values)),
        rejected_rewards |-> TScale(cfg.beta, Detach(rejected_values))]

(* TDPO2Model.loss *)

TDPO2LogitsNoDetach(a, cfg) ==
    TSub(TSub(a.chosen_logps_margin, a.rejected_logps_margin),
         TScale(cfg.alpha, TSub(a.rejected_position_kl, a.chosen_position_kl)))

TDPO2Logits(a, cfg) ==
    LET chosen_rejected_logps_margin ==
            TSub(a.chosen_logps_margin, a.rejected_logps_margin)
    IN TSub(chosen_rejected_logps_margin,
            TScale(cfg.alpha,
                   TSub(a.rejected_position_kl, Detach(a.chosen_position_kl))))

TDPO2Loss(a, cfg) ==
    LET chosen_values == TAdd(a.chosen_logps_margin, a.chosen_position_kl)
        rejected_values == TAdd(a.rejected_logps_margin, a.rejected_position_kl)
        lg == TDPO2Logits(a, cfg)
    IN [logits |-> lg,
        losses |-> TNeg(TLogSigmoid(TScale(cfg.beta, lg))),
        chosen_rewards |-> TScale(cfg.beta, Detach(chosen_values)),
        rejected_rewards |-> TScale(cfg.beta, Detach(rejected_values))]

LossV1 ==
    /\ lossArgs # None
    /\ out1 = None
    /\ out1' = TDPO1Loss(lossArgs, config)
    /\ UNCHANGED <<lossArgs, config, out2, prevLoss>>
    /\ UNCHANGED alignVars
    /\ UNCHANGED batchVars

LossV2 ==
    /\ lossArgs # None
    /\ out2 = None
    /\ out2' = TDPO2Loss(lossArgs, config)
    /\ UNCHANGED <<lossArgs, config, out1, prevLoss>>
    /\ UNCHANGED alignVars
    /\ UNCHANGED batchVars

(* Arguments of loss(): one example, whole units, each a leaf of the graph *)

MaxMargin == 160     \* largest magnitude of a margin argument of loss()
MidMargin == 20      \* a margin between the resolution and the underflow
MaxKL == 2           \* largest KL argument of loss()
MaxCoef == 2         \* largest alpha and beta

MarginVals == {-MaxMargin, -1, 0, MidMargin, MaxMargin}
KLVals == {0, MaxKL}
Steps == {1, MaxMargin}

Leaf(name, x) == [data |-> <<Fin(x * ONE)>>, g |-> {name}]

InitLoss ==
    /\ \E cm \in MarginVals, rm \in MarginVals, ck \in KLVals, rk \in KLVals :
          lossArgs = [chosen_logps_margin |-> Leaf("chosen_logps_margin", cm),
                      rejected_logps_margin |-> Leaf("rejected_logps_margin", rm),
                      chosen_position_kl |-> Leaf("chosen_position_kl", ck),
                      rejected_position_kl |-> Leaf("rejected_position_kl", rk)]
    /\ \E al \in 1..MaxCoef, be \in 1..MaxCoef : config = [alpha |-> al, beta |-> be]
    /\ out1 = None
    /\ out2 = None
    /\ prevLoss = None
    /\ IdleAlign
    /\ IdleBatch

\* the caller raises one argument by d units and will call loss() again
Raise(name, d) ==
    /\ lossArgs # None
    /\ prevLoss = None
    /\ out1 # None \/ out2 # None
    /\ prevLoss' = [args |-> lossArgs, out1 |-> out1, out2 |-> out2,
                    changed |-> name, by |-> d]
    /\ lossArgs' = [lossArgs EXCEPT ![name].data[1] = Fin(@.v + d * ONE)]
    /\ out1' = None
    /\ out2' = None
    /\ UNCHANGED config
    /\ UNCHANGED alignVars
    /\ UNCHANGED batchVars

IncreaseChosenMargin == \E d \in Steps : Raise("chosen_logps_margin", d)
IncreaseChosenKL == \E d \in Steps : Raise("chosen_position_kl", d)

NextLoss == LossV1 \/ LossV2 \/ IncreaseChosenMargin \/ IncreaseChosenKL

SpecLoss == InitLoss /\ [][NextLoss]_vars

----------------------------------------------------------------------------
(* TDPO1Model.forward after the model calls, and get_batch_metrics *)

Slice(a, lo, hi) == [data |-> SubSeq(a.data, lo, hi), g |-> a.g]

\* forward(): split the outputs of tdpo_get_batch_logps at the number of
\* chosen examples; the log-probabilities are detached
Forward(f) ==
    LET n == f.num_chosen
        m == Len(f.all_logps_margin.data)
    IN [chosen_logps_margin |-> Slice(f.all_logps_margin, 1, n),
        rejected_logps_margin |-> Slice(f.all_logps_margin, n + 1, m),
        chosen_position_kl |-> Slice(f.all_position_kl, 1, n),
        rejected_position_kl |-> Slice(f.all_position_kl, n + 1, m),
        chosen_logps |-> Detach(Slice(f.all_logps, 1, n)),
        rejected_logps |-> Detach(Slice(f.all_logps, n + 1, m))]

\* a.flip(dims=[0])
Flip(a) ==
    [data |-> [i \in 1..Len(a.data) |-> a.data[Len(a.data) + 1 - i]], g |-> a.g]

\* (a > b).float(): a comparison is not part of the gradient graph
GreaterFloat(a, b) ==
    [data |-> [i \in 1..Len(a.data) |->
                IF a.data[i].k = "fin" /\ b.data[i].k = "fin" /\ Less(b.data[i], a.data[i])
                THEN Fin(ONE) ELSE Fin(0)],
     g |-> {}]

\* variant with a plausible slip: the same-index comparison
RewardAccuraciesPaired(chosen_rewards, rejected_rewards) ==
    GreaterFloat(chosen_rewards, rejected_rewards)

\* (chosen_rewards > rejected_rewards.flip(dims=[0])).float()
RewardAccuracies(chosen_rewards, rejected_rewards) ==
    GreaterFloat(chosen_rewards, Flip(rejected_rewards))

\* variant with a plausible slip: losses.detach().mean()
MeanLossDetached(losses) ==
    [data |-> <<FDivCount(FSum(losses.data), Len(losses.data))>>, g |-> {}]

\* losses.mean()
MeanLoss(losses) ==
    [data |-> <<FDivCount(FSum(losses.data), Len(losses.data))>>, g |-> losses.g]

\* utils.util.detach_float_metrics: every value detached and cast to float
detach_float_metrics(metrics) ==
    [key \in DOMAIN metrics |-> Detach(metrics[key])]

MetricNames ==
    {<<"rewards", "chosen">>, <<"rewards", "rejected">>, <<"rewards", "accuracies">>,
     <<"rewards", "margins">>, <<"logps", "rejected">>, <<"logps", "chosen">>,
     <<"loss", "">>, <<"kl", "chosen">>, <<"kl", "rejected">>, <<"kl", "margin">>}

\* f'rewards_{mode}/chosen' is <<"rewards", mode, "chosen">>, f'loss/{mode}' is
\* <<"loss", mode, "">>
MetricKey(name, mode) == <<name[1], mode, name[2]>>

\* the metrics mapping before detach_float_metrics
RawMetrics(fw, l, losses, mode) ==
    [key \in {MetricKey(nm, mode) : nm \in MetricNames} |->
        CASE key[1] = "rewards" /\ key[3] = "chosen" -> l.chosen_rewards
          [] key[1] = "rewards" /\ key[3] = "rejected" -> l.rejected_rewards
          [] key[1] = "rewards" /\ key[3] = "accuracies" ->
                RewardAccuracies(l.chosen_rewards, l.rejected_rewards)
          [] key[1] = "rewards" /\ key[3] = "margins" ->
                TSub(l.chosen_rewards, l.rejected_rewards)
          [] key[1] = "logps" /\ key[3] = "rejected" -> fw.rejected_logps
          [] key[1] = "logps" /\ key[3] = "chosen" -> fw.chosen_logps
          [] key[1] = "loss" -> losses
          [] key[1] = "kl" /\ key[3] = "chosen" -> fw.chosen_position_kl
          [] key[1] = "kl" /\ key[3] = "rejected" -> fw.rejected_position_kl
          [] OTHER -> TSub(fw.chosen_position_kl, fw.rejected_position_kl)]

\* cls is the class of self: it selects the loss() that is called
get_batch_metrics(f, cfg, cls) ==
    LET fw == Forward(f)
        l == IF cls = "TDPO2Model" THEN TDPO2Loss(fw, cfg) ELSE TDPO1Loss(fw, cfg)
        losses == MeanLoss(l.losses)
        raw == RawMetrics(fw, l, losses, cfg.mode)
    IN [losses |-> losses, raw |-> raw, metrics |-> detach_float_metrics(raw)]

GetBatchMetrics ==
    /\ fwd # None
    /\ batchOut = None
    /\ batchOut' = get_batch_metrics(fwd, config, fwd.cls)
    /\ UNCHANGED <<fwd, config>>
    /\ UNCHANGED <<lossArgs, out1, out2, prevLoss>>
    /\ UNCHANGED alignVars

(* Batches of NumPairs chosen and NumPairs rejected examples *)

NumPairs == 2        \* N, the number of preference pairs of a batch

Policy(vals) == [data |-> [i \in 1..Len(vals) |-> Fin(vals[i] * ONE)], g |-> {"policy"}]

InitBatch ==
    /\ \E mg \in [1..(2 * NumPairs) -> {-1, 1}], kl \in [1..(2 * NumPairs) -> {0, 1}],
          cls \in {"TDPO1Model", "TDPO2Model"} :
          fwd = [all_logps_margin |-> Policy(mg),
                 all_position_kl |-> Policy(kl),
                 all_logps |-> Policy([i \in 1..(2 * NumPairs) |-> -i]),
                 num_chosen |-> NumPairs,
                 cls |-> cls]
    /\ \E c \in {1, MaxCoef}, mode \in {"train", "eval"} :
          config = [alpha |-> c, beta |-> c, mode |-> mode]
    /\ batchOut = None
    /\ lossArgs = None
    /\ out1 = None
    /\ out2 = None
    /\ prevLoss = None
    /\ IdleAlign

NextBatch == GetBatchMetrics

SpecBatch == InitBatch /\ [][NextBatch]_vars

----------------------------------------------------------------------------
(* Properties of the two losses *)

FullGraph == {"chosen_logps_margin", "rejected_logps_margin",
              "chosen_position_kl", "rejected_position_kl"}

\* loss() was called, one argument was raised, and loss() was called again
Recalled(o, name) ==
    /\ prevLoss # None
    /\ prevLoss.changed = name
    /\ prevLoss[o] # None
    /\ (IF o = "out1" THEN out1 ELSE out2) # None

Plus(x, n) == FAdd(x, Fin(n * ONE))

Values(o) ==
    [losses |-> o.losses.data,
     chosen_rewards |-> o.chosen_rewards.data,
     rejected_rewards |-> o.rejected_rewards.data]

\* C7 as stated: on identical arguments, with the same beta and alpha = 1,
\* the values V1 and V2 return do not coincide.
C7_Original ==
    (out1 # None /\ out2 # None /\ config.alpha = 1) => Values(out1) # Values(out2)

\* C7 amended: on identical arguments and the same beta, V1 and V2 return the
\* same rewards, their logits differ by (alpha - 1) * (rejected_kl - chosen_kl),
\* so with alpha = 1 losses and rewards coincide in value; the two differ in
\* the gradient graph (V2 cuts chosen_kl).
C7_AlphaOneCoincide ==
    (out1 # None /\ out2 # None) =>
        /\ out1.chosen_rewards.data = out2.chosen_rewards.data
        /\ out1.rejected_rewards.data = out2.rejected_rewards.data
        /\ out1.logits.data[1] =
              FAdd(out2.logits.data[1],
                   FScale(config.alpha - 1,
                          FSub(lossArgs.rejected_position_kl.data[1],
                               lossArgs.chosen_position_kl.data[1])))
        /\ config.alpha = 1 => Values(out1) = Values(out2)
        /\ out1.losses.g # out2.losses.g

\* both were called with alpha = 1 on arguments whose KL term is not zero
C7_Witness ==
    /\ out1 # None
    /\ out2 # None
    /\ config.alpha = 1
    /\ lossArgs.rejected_position_kl.data # lossArgs.chosen_position_kl.data
    /\ out1.losses.data[1] # Fin(ONE)

\* C8 as stated: raising chosen_margin alone strictly raises the V1 logit and
\* strictly lowers the V1 loss.
C8_Original ==
    Recalled("out1", "chosen_logps_margin") =>
        /\ Less(prevLoss.out1.logits.data[1], out1.logits.data[1])
        /\ Less(out1.losses.data[1], prevLoss.out1.losses.data[1])

\* C8 amended: raising chosen_margin alone never lowers the V1 logit and never
\* raises the V1 loss; once exp(-beta * logit) underflows the loss is exactly
\* 0 and stays 0, so there the decrease is not strict.
C8_Monotone ==
    Recalled("out1", "chosen_logps_margin") =>
        /\ ~Less(out1.logits.data[1], prevLoss.out1.logits.data[1])
        /\ ~Less(prevLoss.out1.losses.data[1], out1.losses.data[1])
        /\ out1.losses.data[1] = prevLoss.out1.losses.data[1]
              <=> config.beta * prevLoss.out1.logits.data[1].v > FloatMinExp * ONE
        /\ out1.losses.data[1] = prevLoss.out1.losses.data[1]
              => out1.losses.data[1] = Fin(0)

\* chosen_margin was raised and the V1 loss went down
C8_Witness ==
    /\ Recalled("out1", "chosen_logps_margin")
    /\ Less(out1.losses.data[1], prevLoss.out1.losses.data[1])

----------------------------------------------------------------------------
(* Properties of get_batch_metrics *)

Metric(group, name) == batchOut.metrics[<<group, config.mode, name>>]
Pairs == 1..fwd.num_chosen
\* beta * (margin + kl) of entry i of the concatenated batch
RewardOf(i) ==
    config.beta * (fwd.all_logps_margin.data[i].v + fwd.all_position_kl.data[i].v)
Indicator(p) == IF p THEN Fin(ONE) ELSE Fin(0)

\* C4: for every i, accuracies[i] is 1 exactly when the reward of chosen
\* example i is strictly greater than the reward of rejected example N-1-i
\* (0-based), and margins[i] is the same-index difference.
C4_RewardAccuracyReversed ==
    batchOut # None =>
        \A i \in Pairs :
            LET n == fwd.num_chosen
                chosen(j) == RewardOf(j)
                rejected(j) == RewardOf(n + j)
            IN /\ Metric("rewards", "chosen").data[i] = Fin(chosen(i))
               /\ Metric("rewards", "rejected").data[i] = Fin(rejected(i))
               /\ Metric("rewards", "accuracies").data[i] =
                     Indicator(chosen(i) > rejected(n + 1 - i))
               /\ Metric("rewards", "margins").data[i] = Fin(chosen(i) - rejected(i))

\* some accuracy differs from what the same-index comparison would give
C4_Witness ==
    /\ batchOut # None
    /\ \E i \in Pairs :
          Metric("rewards", "accuracies").data[i] #
              Indicator(RewardOf(i) > RewardOf(fwd.num_chosen + i))

\* C6: every value of the returned metrics mapping is detached and the
\* returned loss is not; the mapping has the ten metrics of the mode, with
\* the values they were given.
C6_MetricsDetached ==
    batchOut # None =>
        /\ DOMAIN batchOut.metrics = {MetricKey(nm, config.mode) : nm \in MetricNames}
        /\ \A key \in DOMAIN batchOut.metrics :
              /\ batchOut.metrics[key].g = {}
              /\ batchOut.metrics[key].data = batchOut.raw[key].data
        /\ batchOut.losses.g # {}
        /\ Metric("loss", "").data = batchOut.losses.data

\* the KL metrics and the logged loss carried gradient before they were detached
C6_Witness ==
    /\ batchOut # None
    /\ batchOut.raw[<<"kl", config.mode, "chosen">>].g # {}
    /\ batchOut.raw[<<"kl", config.mode, "margin">>].g # {}
    /\ batchOut.raw[<<"loss", config.mode, "">>].g # {}
    /\ Metric("kl", "chosen").g = {}

====
